---- MODULE Spec2Model ----
(***************************************************************************)
(* Client-side upload tracking of the Product Importer: job submission,    *)
(* the WebSocket progress channel, the polling fallback, the progress and  *)
(* error display and the completion handler (app/static/js/upload.js, the  *)
(* definitions in effect: the later ones of the file, lines 205-520), and  *)
(* the data-changed flag and tab switching of app/static/js/app.js.        *)
(***************************************************************************)
EXTENDS Integers, Sequences, FiniteSets, TLC

\* ------------------------------------------------------------------ bounds
MaxUploads == 1      \* jobs submitted in one run
MaxInflight == 1     \* status requests of one polling loop awaiting a response
MaxErrs == 11        \* longest error list rendered
MaxNoted == 2        \* failed status requests counted by the trace

\* ------------------------------------------------------- program constants
NULL == 0            \* null (currentUploadTaskId, uploadWebSocket)
NormalClosure == 1000
NoStatusRcvd == 1005 \* close code of a close() called without a code
AbnormalClosure == 1006
DisplayCap == 10

\* The identifiers the server hands out: one per job of a run, and one more
\* for the run of two jobs (PairSpec).
TaskIds == 1..(MaxUploads + 1)

\* ------------------------------------------------------------ environment
\* Progress values are in hundredths of a percent (4000 is 40.00 %).
ProgressEvents ==
    { [progress |-> 3333,  processed |-> 250, total |-> 750],
      [progress |-> 10000, processed |-> 500, total |-> 500] }

ZeroEvent == [progress |-> 0, processed |-> 0, total |-> 0]

\* An error record as the server sends it: a JSON object with optional row,
\* error and batch_error members, or a bare string.
\* (t: typeof; hasRow: row !== undefined; "" stands for an absent member.)
RowErr(r) == [t |-> "obj", hasRow |-> TRUE, row |-> r, error |-> "bad sku", batch_error |-> "", s |-> ""]
BatchErr == [t |-> "obj", hasRow |-> FALSE, row |-> 0, error |-> "", batch_error |-> "db down", s |-> ""]

ProcErr == [t |-> "obj", hasRow |-> FALSE, row |-> 0, error |-> "timeout", batch_error |-> "", s |-> ""]
StrErr == [t |-> "str", hasRow |-> FALSE, row |-> 0, error |-> "", batch_error |-> "", s |-> "disk full"]
EmptyObj == [t |-> "obj", hasRow |-> FALSE, row |-> 0, error |-> "", batch_error |-> "", s |-> ""]

\* A record carrying a batch-level message next to a row and an error message.
BothErr == [t |-> "obj", hasRow |-> TRUE, row |-> 2, error |-> "bad sku", batch_error |-> "db down", s |-> ""]

RowErrs(n) == [i \in 1..n |-> RowErr(i)]

\* The error lists of the frames and status responses of a tracked job.
ErrorLists == { <<>>, <<RowErr(7)>> }

\* ------------------------------------------------------- pure functions
\* Number.prototype.toFixed(1) of a value in hundredths: tenths, half up.
ToFixed1(p) == (p + 5) \div 10

updateProgress_max(cur, progress, processed, total) ==
    [ width   |-> IF progress > cur.width THEN progress ELSE cur.width,
      text    |-> ToFixed1(IF progress > cur.width THEN progress ELSE cur.width),
      details |-> IF processed > cur.details[1] THEN <<processed, total>> ELSE cur.details ]

\* updateProgress: the three DOM writes; cur is the display before the call.
updateProgress(cur, progress, processed, total) ==
    [ width   |-> progress,
      text    |-> ToFixed1(progress),
      details |-> <<processed, total>> ]

ErrorItem_rowTruthy(err) ==
    IF err.batch_error # "" THEN <<"System", 0, err.batch_error>>
    ELSE IF err.error # "" THEN
        IF err.hasRow /\ err.row # 0 THEN <<"Row", err.row, err.error>>
                                      ELSE <<"Processing", 0, err.error>>
    ELSE IF err.t = "str" THEN <<"Error", 0, err.s>>
    ELSE <<"Unknown", 0, "">>

\* One line of the error display (displayErrors' map callback).
ErrorItem(err) ==
    IF err.batch_error # "" THEN <<"System", 0, err.batch_error>>
    ELSE IF err.error # "" THEN
        IF err.hasRow THEN <<"Row", err.row, err.error>>
                      ELSE <<"Processing", 0, err.error>>
    ELSE IF err.t = "str" THEN <<"Error", 0, err.s>>
    ELSE <<"Unknown", 0, "">>

Slice(s, n) == SubSeq(s, 1, IF Len(s) < n THEN Len(s) ELSE n)

RenderErrors_nocap(errors) ==
    [ items |-> [i \in 1..Len(errors) |-> ErrorItem(errors[i])], more |-> 0 ]

\* The innerHTML displayErrors builds: the detailed items and the count of
\* the "... and N more errors" line (0: no such line).
RenderErrors(errors) ==
    [ items |-> [i \in 1..Len(Slice(errors, DisplayCap)) |-> ErrorItem(errors[i])],
      more  |-> IF Len(errors) > DisplayCap THEN Len(errors) - DisplayCap ELSE 0 ]

NoErrors == [items |-> <<>>, more |-> 0]

\* displayErrors: cur is the error display before the call, taskId the
\* value of currentUploadTaskId.
displayErrors(cur, taskId, errors) ==
    IF taskId # NULL /\ Len(errors) > 0 THEN RenderErrors(errors) ELSE cur

\* The task whose records the error display shows after displayErrors ran
\* for records that task t's channel reported.
shownAfter(cur, taskId, errors, t) ==
    IF taskId # NULL /\ Len(errors) > 0 THEN t ELSE cur

\* --------------------------------------------------------------- messages
\* A completion message: a plain string (text), the template of line 387
\* (processed, with N), a string holding a JSON list of error records
\* (json), or an absent/empty value (none).
Txt(str) == [k |-> "text", str |-> str, n |-> 0, errs |-> <<>>]
ProcessedMsg(n) == [k |-> "processed", str |-> "Successfully processed N products", n |-> n, errs |-> <<>>]
JsonMsg(errs) == [k |-> "json", str |-> "", n |-> 0, errs |-> errs]
NoMsg == [k |-> "none", str |-> "", n |-> 0, errs |-> <<>>]

\* message.startsWith('[{'): a JSON list whose first element is an object.
StartsWithListOfObject(m) == m.k = "json" /\ Len(m.errs) > 0 /\ m.errs[1].t = "obj"

DetailCap == 5

\* One line of the terminal error details (handleUploadComplete's map callback).
DetailItem(err) ==
    IF err.batch_error # "" THEN <<"System", 0, err.batch_error>>
    ELSE IF err.error # "" THEN
        IF err.hasRow THEN <<"Row", err.row, err.error>>
                      ELSE <<"Processing", 0, err.error>>
    ELSE <<"Unknown error", 0, "">>

NoResult == [cls |-> "", msg |-> NoMsg, count |-> 0, details |-> <<>>, more |-> 0]

\* uploadResult.innerHTML as handleUploadComplete sets it.
ResultOf(success, message) ==
    IF success THEN [NoResult EXCEPT !.cls = "success", !.msg = message]
    ELSE IF StartsWithListOfObject(message) THEN
        [ cls |-> "error",
          msg |-> Txt("Upload failed with N error(s)"),
          count |-> Len(message.errs),
          details |-> [i \in 1..Len(Slice(message.errs, DetailCap)) |-> DetailItem(message.errs[i])],
          more |-> IF Len(message.errs) > DetailCap THEN Len(message.errs) - DetailCap ELSE 0 ]
    ELSE [NoResult EXCEPT !.cls = "error",
                          !.msg = IF message.k = "none" THEN Txt("Upload failed") ELSE message]

\* ---------------------------------------------------------------- sockets
\* state: readyState; closing: the code of the close() the page called;
\* failed: the page closed it while connecting; completeSent: the server has
\* sent its complete frame (it sends one per job); errorSeen, closeCode: the
\* error and close events delivered to the page.
NoSocket == [state |-> "NONE", closing |-> 0, failed |-> FALSE, completeSent |-> FALSE,
             errorSeen |-> FALSE, closeCode |-> 0]

\* new WebSocket(wsUrl)
NewSocket == [NoSocket EXCEPT !.state = "CONNECTING"]

\* WebSocket.close(code) called by the page on socket s: a connecting socket
\* is failed, an open one starts the closing handshake with that code, a
\* closing or closed one is left alone.
WsClose(socks, s, code) ==
    IF socks[s].state = "CONNECTING"
        THEN [socks EXCEPT ![s].state = "CLOSING", ![s].failed = TRUE, ![s].closing = AbnormalClosure]
    ELSE IF socks[s].state = "OPEN"
        THEN [socks EXCEPT ![s].state = "CLOSING", ![s].closing = code]
    ELSE socks

\* ---------------------------------------------------------------- polling
\* pollUploadStatus(taskId): setInterval of a new polling loop.
pollUploadStatus(ps, taskId) ==
    Append(ps, [task |-> taskId, active |-> TRUE, inflight |-> 0])

\* uploadWebSocket.onerror
onerror(ps, taskId) == pollUploadStatus(ps, taskId)

onclose_never(ps, taskId, code) == ps

onclose_always(ps, taskId, code) == pollUploadStatus(ps, taskId)

\* uploadWebSocket.onclose
onclose(ps, taskId, code) ==
    IF code # NormalClosure THEN pollUploadStatus(ps, taskId) ELSE ps

\* ------------------------------------------------------------------ state
VARIABLES
    currentUploadTaskId,  \* upload.js:207
    uploadWebSocket,      \* upload.js:208: NULL or the task id of the socket it refers to
    sockets,              \* the WebSocket objects created, by task id (one per accepted job)
    pollers,              \* the setInterval loops of pollUploadStatus, in creation order
    progressDisplay,      \* #progress-fill width, #progress-text, #progress-details
    uploadErrors,         \* #upload-errors
    uploadResult,         \* #upload-result
    pendingUploads,       \* POST /upload requests awaiting their response
    uploadsStarted,       \* calls of handleFileUpload so far
    nextTaskId,           \* the identifier the server gives the next accepted job
    serverStatus,         \* the status the status endpoint reports, by task id
    completeCount,        \* history: calls of handleUploadComplete, by the task whose channel made them
    lastProgress,         \* history: the arguments of the last call of updateProgress
    abandoned,            \* history: the tasks whose tracking the caller has given up
    render,               \* the error list handed to displayErrors on its own, and whether it was
    pingTimers,           \* upload.js:346: the keepalive interval of each connectWebSocket call, scheduled or not
    appState,             \* app.js:4: window.appState
    tabs,                 \* the tab buttons: the one with class active, and has-updates of the products tab
    trace,                \* history, recorded for the topics in trace.on: the units the channels ignored
    history,              \* history: whose records #upload-errors shows, successes since the
                          \* products tab was last selected, the last ping sent, the
                          \* arguments of the last call of handleUploadComplete
    products,             \* app.js:65-67: currentPage, totalPages, a product-list request in
                          \* flight or not, and the page count the server has for the list
    deleteAll             \* the delete-all modal: its input, button and visibility, the
                          \* requests in flight, and a bit that flips when performDeleteAll runs

vars == << currentUploadTaskId, uploadWebSocket, sockets, pollers, progressDisplay,
           uploadErrors, uploadResult, pendingUploads, uploadsStarted, nextTaskId,
           serverStatus, completeCount, lastProgress, abandoned, render,
           pingTimers, appState, tabs, trace, history, products, deleteAll >>

\* What the handlers of the upload channels leave alone.
aux == << abandoned, render, pingTimers, appState, tabs, trace, history, products, deleteAll >>

\* 'DELETE', character by character.
DELETE == <<"D", "E", "L", "E", "T", "E">>

\* The delete-all modal as the page is loaded: hidden, nothing typed, no
\* request made.
ModalClosed == [input |-> <<>>, disabled |-> FALSE, text |-> "Delete All", show |-> FALSE,
                deleting |-> 0, ran |-> FALSE]

\* loadProducts() up to its await (app.js lines 112-121): the list is requested.
loadProducts(p) == [p EXCEPT !.loading = TRUE]

\* No rejection recorded.
NoRejection == [kind |-> "none", detail |-> NoMsg]

\* No call of handleUploadComplete, no complete frame.
NoOutcome == [success |-> FALSE, message |-> NoMsg]

TraceOff == [on |-> {}, badFrame |-> {}, pollFails |-> 0, pollErrors |-> NoMsg,
             rejection |-> NoRejection, complete |-> NoOutcome]

\* The trace after a unit of topic, if the topic is recorded.
Note(topic, new) == IF topic \in trace.on THEN new ELSE trace

Tabs == {"upload", "products", "webhooks"}

Terminal == {"completed", "failed"}

Init ==
    /\ currentUploadTaskId = NULL
    /\ uploadWebSocket = NULL
    /\ sockets = [t \in TaskIds |-> NoSocket]
    /\ pollers = <<>>
    /\ progressDisplay = [width |-> 0, text |-> 0, details |-> <<0, 0>>]
    /\ uploadErrors = NoErrors
    /\ uploadResult = NoResult
    /\ pendingUploads = 0
    /\ uploadsStarted = 0
    /\ nextTaskId = 1
    /\ serverStatus = [t \in TaskIds |-> "none"]
    /\ completeCount = [t \in TaskIds |-> 0]
    /\ lastProgress = ZeroEvent
    /\ abandoned = {}
    /\ render = [input |-> <<>>, done |-> FALSE]
    /\ pingTimers = [t \in TaskIds |-> FALSE]
    /\ appState = [recentUpload |-> FALSE, lastUploadTime |-> NULL]
    /\ tabs = [active |-> "upload", hasUpdates |-> FALSE]
    /\ products = [currentPage |-> 1, totalPages |-> 1, loading |-> TRUE, serverPages |-> 1]
    /\ deleteAll = ModalClosed
    /\ trace = TraceOff
    /\ history = [errorsOf |-> NULL, freshSuccess |-> FALSE, lastPing |-> <<NULL, NULL>>,
                  lastArgs |-> NoOutcome]

completeAppState_always(st, success) == [recentUpload |-> TRUE, lastUploadTime |-> 1]

\* window.appState after handleUploadComplete (lines 450-454); 1 stands for
\* the time of the call.
completeAppState(st, success) ==
    IF success THEN [recentUpload |-> TRUE, lastUploadTime |-> 1] ELSE st

completeTabs_always(tb, success) ==
    IF success THEN [tb EXCEPT !.hasUpdates = TRUE] ELSE tb

\* The tab buttons after handleUploadComplete (lines 456-461).
completeTabs(tb, success) ==
    IF success /\ tb.active # "products" THEN [tb EXCEPT !.hasUpdates = TRUE] ELSE tb

\* handleUploadComplete(success, message); socks are the sockets as the
\* caller left them.
handleUploadComplete(socks, success, message) ==
    /\ appState' = completeAppState(appState, success)
    /\ tabs' = completeTabs(tabs, success)
    /\ products' = IF success THEN loadProducts(products) ELSE products
    /\ history' = [history EXCEPT !.errorsOf = NULL, !.freshSuccess = @ \/ success,
                                  !.lastArgs = [success |-> success, message |-> message]]
    /\ sockets' = IF uploadWebSocket # NULL
                     THEN WsClose(socks, uploadWebSocket, NormalClosure)
                     ELSE socks
    /\ uploadWebSocket' = NULL
    /\ uploadErrors' = NoErrors
    /\ uploadResult' = ResultOf(success, message)
    /\ currentUploadTaskId' = NULL

\* ------------------------------------------------------- job submission
\* handleFileUpload up to its await: the UI reset and the POST.
Submit ==
    /\ uploadsStarted' = uploadsStarted + 1
    /\ pendingUploads' = pendingUploads + 1
    /\ uploadResult' = NoResult
    /\ uploadErrors' = NoErrors
    /\ history' = [history EXCEPT !.errorsOf = NULL, !.lastArgs = NoOutcome]
    /\ progressDisplay' = updateProgress(progressDisplay, 0, 0, 0)
    /\ lastProgress' = ZeroEvent
    /\ UNCHANGED << currentUploadTaskId, uploadWebSocket, sockets, pollers, nextTaskId,
                    serverStatus, completeCount >>
    /\ UNCHANGED << abandoned, render, pingTimers, appState, tabs, products, trace, deleteAll >>

\* A file is chosen or dropped, in a run of at most MaxUploads jobs.
UploadStart == uploadsStarted < MaxUploads /\ Submit

trackingPollers_alsoPoll(ps, taskId) == pollUploadStatus(ps, taskId)

\* The polling loops after handleFileUpload's success branch: none is started.
trackingPollers(ps, taskId) == ps

\* handleFileUpload after a 2xx response: connectWebSocket(task.task_id).
UploadAccepted ==
    /\ pendingUploads > 0
    /\ pendingUploads' = pendingUploads - 1
    /\ currentUploadTaskId' = nextTaskId
    /\ uploadWebSocket' = nextTaskId
    /\ sockets' = [sockets EXCEPT ![nextTaskId] = NewSocket]
    /\ pollers' = trackingPollers(pollers, nextTaskId)
    /\ serverStatus' = [serverStatus EXCEPT ![nextTaskId] = "processing"]
    /\ nextTaskId' = nextTaskId + 1
    /\ pingTimers' = [pingTimers EXCEPT ![nextTaskId] = TRUE]
    /\ UNCHANGED << progressDisplay, uploadErrors, uploadResult, uploadsStarted, completeCount,
                    lastProgress >>
    /\ UNCHANGED << abandoned, render, appState, tabs, products, trace, history, deleteAll >>

\* The ways POST /upload fails: a non-2xx response whose JSON body has a
\* detail or none, a non-2xx response whose body is no JSON (response.json()
\* rejects), a network failure (fetch rejects).
Rejections ==
    { [kind |-> "status",  detail |-> Txt("Only CSV files are allowed")],
      [kind |-> "status",  detail |-> NoMsg],
      [kind |-> "body",    detail |-> NoMsg],
      [kind |-> "network", detail |-> NoMsg] }

RejectionMessage_generic(r) == Txt("Upload failed")

\* error.message in handleFileUpload's catch.
RejectionMessage(r) ==
    IF r.kind = "network" THEN Txt("Failed to fetch")
    ELSE IF r.kind = "body" THEN Txt("Unexpected token in JSON")
    ELSE IF r.detail.k = "none" THEN Txt("Upload failed")
    ELSE r.detail

\* handleFileUpload's catch: a non-2xx response or a network failure.
UploadRejected ==
    /\ pendingUploads > 0
    /\ pendingUploads' = pendingUploads - 1
    /\ \E r \in Rejections :
          /\ uploadResult' = [NoResult EXCEPT !.cls = "error", !.msg = RejectionMessage(r)]
          /\ trace' = Note("submit", [trace EXCEPT !.rejection = r])
    /\ UNCHANGED << currentUploadTaskId, uploadWebSocket, sockets, pollers, progressDisplay,
                    uploadErrors, uploadsStarted, nextTaskId, serverStatus, completeCount,
                    lastProgress >>
    /\ UNCHANGED << abandoned, render, pingTimers, appState, tabs, products, history, deleteAll >>

\* The job ends on the server.
ServerFinish(t) ==
    /\ serverStatus[t] = "processing"
    /\ \E st \in Terminal : serverStatus' = [serverStatus EXCEPT ![t] = st]
    /\ UNCHANGED << currentUploadTaskId, uploadWebSocket, sockets, pollers, progressDisplay,
                    uploadErrors, uploadResult, pendingUploads, uploadsStarted, nextTaskId,
                    completeCount, lastProgress >>
    /\ UNCHANGED aux

\* ------------------------------------------------------ streaming channel
WsCompleteFrames ==
    { [success |-> TRUE,  message |-> Txt("Import completed")],
      [success |-> FALSE, message |-> JsonMsg(<<RowErr(3)>>)],
      [success |-> FALSE, message |-> JsonMsg(RowErrs(DetailCap + 1))] }

Completed(t) == completeCount' = [completeCount EXCEPT ![t] = @ + 1]

\* The connection is established (onopen only logs).
WsOpen(s) ==
    /\ sockets[s].state = "CONNECTING"
    /\ sockets' = [sockets EXCEPT ![s].state = "OPEN"]
    /\ UNCHANGED << currentUploadTaskId, uploadWebSocket, pollers, progressDisplay,
                    uploadErrors, uploadResult, pendingUploads, uploadsStarted, nextTaskId,
                    serverStatus, completeCount, lastProgress >>
    /\ UNCHANGED aux

\* onmessage, type connected or pong: logged only.
WsInfoFrame(s) ==
    /\ sockets[s].state = "OPEN"
    /\ UNCHANGED << currentUploadTaskId, uploadWebSocket, sockets, pollers, progressDisplay,
                    uploadErrors, uploadResult, pendingUploads, uploadsStarted, nextTaskId,
                    serverStatus, completeCount, lastProgress >>
    /\ UNCHANGED aux

\* onmessage, type progress.
WsProgressFrame(s) ==
    /\ sockets[s].state = "OPEN"
    /\ \E ev \in ProgressEvents, errors \in ErrorLists :
        /\ progressDisplay' = updateProgress(progressDisplay, ev.progress, ev.processed, ev.total)
        /\ lastProgress' = ev
        /\ uploadErrors' = IF Len(errors) > 0
                              THEN displayErrors(uploadErrors, currentUploadTaskId, errors)
                              ELSE uploadErrors
        /\ history' = [history EXCEPT
                          !.errorsOf = shownAfter(@, currentUploadTaskId, errors, s)]
    /\ UNCHANGED << currentUploadTaskId, uploadWebSocket, sockets, pollers, uploadResult,
                    pendingUploads, uploadsStarted, nextTaskId, serverStatus, completeCount >>
    /\ UNCHANGED << abandoned, render, pingTimers, appState, tabs, products, trace, deleteAll >>

\* onmessage, type complete.
WsCompleteFrame(s) ==
    /\ sockets[s].state = "OPEN"
    /\ ~sockets[s].completeSent
    /\ \E c \in WsCompleteFrames :
        /\ handleUploadComplete([sockets EXCEPT ![s].completeSent = TRUE], c.success, c.message)
        /\ Completed(s)
        /\ trace' = Note("frames", [trace EXCEPT !.complete = c])
    /\ UNCHANGED << pollers, progressDisplay, pendingUploads, uploadsStarted, nextTaskId,
                    serverStatus, lastProgress >>
    /\ UNCHANGED << abandoned, render, pingTimers, deleteAll >>

ignoredFrame_closes(socks, s) == WsClose(socks, s, NormalClosure)

\* The sockets after onmessage ran for a frame it does not handle: JSON.parse
\* throws out of the handler, or no branch of lines 314-326 matches.
ignoredFrame(socks, s) == socks

\* onmessage for a frame that is no JSON, or whose type is none of
\* connected, progress, complete, pong.
WsBadFrame(s) ==
    /\ sockets[s].state = "OPEN"
    /\ sockets' = ignoredFrame(sockets, s)
    /\ trace' = Note("frames", [trace EXCEPT !.badFrame = @ \cup {s}])
    /\ UNCHANGED << currentUploadTaskId, uploadWebSocket, pollers, progressDisplay,
                    uploadErrors, uploadResult, pendingUploads, uploadsStarted, nextTaskId,
                    serverStatus, completeCount, lastProgress >>
    /\ UNCHANGED << abandoned, render, pingTimers, appState, tabs, products, history, deleteAll >>

\* The connection fails (it cannot be established, or it breaks): the
\* browser fires error and then close with 1006, in one task.
WsFail(s) ==
    /\ sockets[s].state \in {"CONNECTING", "OPEN"}
    /\ sockets' = [sockets EXCEPT ![s].state = "CLOSED", ![s].errorSeen = TRUE,
                                   ![s].closeCode = AbnormalClosure]
    /\ pollers' = onclose(onerror(pollers, s), s, AbnormalClosure)
    /\ UNCHANGED << currentUploadTaskId, uploadWebSocket, progressDisplay,
                    uploadErrors, uploadResult, pendingUploads, uploadsStarted, nextTaskId,
                    serverStatus, completeCount, lastProgress >>
    /\ UNCHANGED aux

ServerCloseCodes == {NormalClosure, AbnormalClosure}

\* The server (or the network) closes an open connection without an error
\* event: close fires with the code received.
WsServerClose(s) ==
    /\ sockets[s].state = "OPEN"
    /\ \E code \in ServerCloseCodes :
        /\ sockets' = [sockets EXCEPT ![s].state = "CLOSED", ![s].closeCode = code]
        /\ pollers' = onclose(pollers, s, code)
    /\ UNCHANGED << currentUploadTaskId, uploadWebSocket, progressDisplay,
                    uploadErrors, uploadResult, pendingUploads, uploadsStarted, nextTaskId,
                    serverStatus, completeCount, lastProgress >>
    /\ UNCHANGED aux

\* The closing handshake the page started ends: close fires with the code
\* the page sent (1005 when it sent none); a socket closed while connecting
\* was failed, so error fires first and the code is 1006.
WsClosed(s) ==
    /\ sockets[s].state = "CLOSING"
    /\ sockets' = [sockets EXCEPT ![s].state = "CLOSED",
                                   ![s].errorSeen = sockets[s].failed,
                                   ![s].closeCode = sockets[s].closing]
    /\ pollers' = onclose(IF sockets[s].failed THEN onerror(pollers, s) ELSE pollers,
                           s, sockets[s].closing)
    /\ UNCHANGED << currentUploadTaskId, uploadWebSocket, progressDisplay,
                    uploadErrors, uploadResult, pendingUploads, uploadsStarted, nextTaskId,
                    serverStatus, completeCount, lastProgress >>
    /\ UNCHANGED aux

\* -------------------------------------------------------- polling channel
\* task.errors of a status response: absent, a string holding a JSON list,
\* or a string that is no JSON.
PollErrPayloads == { NoMsg, JsonMsg(<<RowErr(7)>>), Txt("worker crashed") }

\* A socket delivers at most one error and one close event, each starting
\* at most one loop.
PollerIds == 1..(2 * (MaxUploads + 1))

\* The interval fires: the status request of line 358 is sent.
PollTick(k) ==
    /\ k \in DOMAIN pollers
    /\ pollers[k].active
    /\ pollers[k].inflight < MaxInflight
    /\ pollers' = [pollers EXCEPT ![k].inflight = @ + 1]
    /\ UNCHANGED << currentUploadTaskId, uploadWebSocket, sockets, progressDisplay,
                    uploadErrors, uploadResult, pendingUploads, uploadsStarted, nextTaskId,
                    serverStatus, completeCount, lastProgress >>
    /\ UNCHANGED aux

PollRespFail_stops(k) ==
    /\ k \in DOMAIN pollers
    /\ pollers[k].inflight > 0
    /\ pollers' = [pollers EXCEPT ![k].inflight = @ - 1, ![k].active = FALSE]
    /\ trace' = Note("polls", [trace EXCEPT
                    !.pollFails = IF @ < MaxNoted THEN @ + 1 ELSE @])
    /\ UNCHANGED << currentUploadTaskId, uploadWebSocket, sockets, progressDisplay,
                    uploadErrors, uploadResult, pendingUploads, uploadsStarted, nextTaskId,
                    serverStatus, completeCount, lastProgress >>
    /\ UNCHANGED << abandoned, render, pingTimers, appState, tabs, products, history, deleteAll >>

PollRespFail_fails(k) ==
    /\ k \in DOMAIN pollers
    /\ pollers[k].inflight > 0
    /\ pollers' = [pollers EXCEPT ![k].inflight = @ - 1]
    /\ trace' = Note("polls", [trace EXCEPT
                    !.pollFails = IF @ < MaxNoted THEN @ + 1 ELSE @])
    /\ handleUploadComplete(sockets, FALSE, Txt("Upload failed"))
    /\ completeCount' = [completeCount EXCEPT ![pollers[k].task] = @ + 1]
    /\ UNCHANGED << progressDisplay, pendingUploads, uploadsStarted, nextTaskId,
                    serverStatus, lastProgress >>
    /\ UNCHANGED << abandoned, render, pingTimers, deleteAll >>

\* The request fails or the response is not 2xx: the callback returns.
PollRespFail(k) ==
    /\ k \in DOMAIN pollers
    /\ pollers[k].inflight > 0
    /\ pollers' = [pollers EXCEPT ![k].inflight = @ - 1]
    /\ trace' = Note("polls", [trace EXCEPT
                    !.pollFails = IF @ < MaxNoted THEN @ + 1 ELSE @])
    /\ UNCHANGED << currentUploadTaskId, uploadWebSocket, sockets, progressDisplay,
                    uploadErrors, uploadResult, pendingUploads, uploadsStarted, nextTaskId,
                    serverStatus, completeCount, lastProgress >>
    /\ UNCHANGED << abandoned, render, pingTimers, appState, tabs, products, history, deleteAll >>

clearInterval_noop(p) == p

\* clearInterval(interval) of line 379.
clearInterval(p) == [p EXCEPT !.active = FALSE]

PollMessage_generic(status, processed_rows, errors) ==
    IF status = "completed" THEN ProcessedMsg(processed_rows) ELSE Txt("Upload failed")

\* The message polling hands to handleUploadComplete (lines 385-388).
PollMessage(status, processed_rows, errors) ==
    IF status = "completed" THEN ProcessedMsg(processed_rows)
    ELSE IF errors.k # "none" THEN errors ELSE Txt("Upload failed")

\* A 2xx status response is handled (lines 361-390).
PollRespOk(k) ==
    /\ k \in DOMAIN pollers
    /\ pollers[k].inflight > 0
    /\ LET t == pollers[k].task
           status == serverStatus[t]
       IN \E ev \in ProgressEvents, errors \in PollErrPayloads :
           /\ progressDisplay' = updateProgress(progressDisplay, ev.progress, ev.processed, ev.total)
           /\ lastProgress' = ev
           /\ trace' = Note("polls", [trace EXCEPT !.pollErrors = errors])
           /\ IF status \in Terminal
                THEN /\ pollers' = [pollers EXCEPT ![k] = clearInterval([@ EXCEPT !.inflight = @ - 1])]
                     /\ handleUploadComplete(
                            IF uploadWebSocket # NULL
                                THEN WsClose(sockets, uploadWebSocket, NoStatusRcvd)
                                ELSE sockets,
                            status = "completed",
                            PollMessage(status, ev.processed, errors))
                     /\ Completed(t)
                ELSE /\ pollers' = [pollers EXCEPT ![k].inflight = @ - 1]
                     /\ uploadErrors' = IF errors.k = "json"
                                           THEN displayErrors(uploadErrors, currentUploadTaskId, errors.errs)
                                           ELSE uploadErrors
                     /\ history' = [history EXCEPT !.errorsOf =
                                        IF errors.k = "json"
                                            THEN shownAfter(@, currentUploadTaskId, errors.errs, t)
                                            ELSE @]
                     /\ UNCHANGED << currentUploadTaskId, uploadWebSocket, sockets, uploadResult,
                                     completeCount, appState, tabs, products >>
    /\ UNCHANGED << pendingUploads, uploadsStarted, nextTaskId, serverStatus >>
    /\ UNCHANGED << abandoned, render, pingTimers, deleteAll >>

\* ---------------------------------------------------------- specification
\* The handlers that run once a job was submitted.
Handlers ==
    \/ UploadAccepted
    \/ UploadRejected
    \/ \E t \in TaskIds : ServerFinish(t)
    \/ \E s \in TaskIds : WsOpen(s)
    \/ \E s \in TaskIds : WsInfoFrame(s)
    \/ \E s \in TaskIds : WsProgressFrame(s)
    \/ \E s \in TaskIds : WsCompleteFrame(s)
    \/ \E s \in TaskIds : WsBadFrame(s)
    \/ \E s \in TaskIds : WsFail(s)
    \/ \E s \in TaskIds : WsServerClose(s)
    \/ \E s \in TaskIds : WsClosed(s)
    \/ \E k \in PollerIds : PollTick(k)
    \/ \E k \in PollerIds : PollRespFail(k)
    \/ \E k \in PollerIds : PollRespOk(k)

Next == UploadStart \/ Handlers

Spec == Init /\ [][Next]_vars

\* The caller gives up tracking task t while its stream is connected and no
\* terminal event was handled. upload.js keeps no handle of a tracked task
\* and defines no operation for this, so no program state changes.
AbandonTracking(t) ==
    /\ sockets[t].state = "OPEN"
    /\ completeCount[t] = 0
    /\ t \notin abandoned
    /\ abandoned' = abandoned \cup {t}
    /\ UNCHANGED << currentUploadTaskId, uploadWebSocket, sockets, pollers, progressDisplay,
                    uploadErrors, uploadResult, pendingUploads, uploadsStarted, nextTaskId,
                    serverStatus, completeCount, lastProgress, render,
                    pingTimers, appState, tabs, products, trace, history, deleteAll >>

AbandonSpec == Init /\ [][Next \/ \E t \in TaskIds : AbandonTracking(t)]_vars

\* ------------------------------------------------- displayErrors on its own
RenderRecords == { RowErr(0), RowErr(3), BatchErr, BothErr, ProcErr, StrErr, EmptyObj }

RenderLists ==
    { RowErrs(n) : n \in 0..MaxErrs }
        \cup { <<a>> : a \in RenderRecords }
        \cup { <<a, b>> : a \in RenderRecords, b \in RenderRecords }

\* The inputs of one call of displayErrors: the list, and the state the
\* call finds: nothing submitted yet, or job 1 tracked over an open
\* connection with an empty or a full error display.
RenderInit ==
    /\ render \in [input : RenderLists, done : {FALSE}]
    /\ \/ /\ currentUploadTaskId = NULL
          /\ uploadWebSocket = NULL
          /\ sockets = [t \in TaskIds |-> NoSocket]
          /\ uploadErrors = NoErrors
          /\ uploadsStarted = 0
          /\ nextTaskId = 1
          /\ serverStatus = [t \in TaskIds |-> "none"]
       \/ /\ currentUploadTaskId = 1
          /\ uploadWebSocket = 1
          /\ sockets = [t \in TaskIds |-> IF t = 1 THEN [NewSocket EXCEPT !.state = "OPEN"] ELSE NoSocket]
          /\ uploadErrors \in {NoErrors, RenderErrors(RowErrs(MaxErrs))}
          /\ uploadsStarted = 1
          /\ nextTaskId = 2
          /\ serverStatus = [t \in TaskIds |-> IF t = 1 THEN "processing" ELSE "none"]
    /\ pollers = <<>>
    /\ progressDisplay = [width |-> 0, text |-> 0, details |-> <<0, 0>>]
    /\ uploadResult = NoResult
    /\ pendingUploads = 0
    /\ completeCount = [t \in TaskIds |-> 0]
    /\ lastProgress = ZeroEvent
    /\ abandoned = {}
    /\ pingTimers = [t \in TaskIds |-> t = currentUploadTaskId]
    /\ appState = [recentUpload |-> FALSE, lastUploadTime |-> NULL]
    /\ tabs = [active |-> "upload", hasUpdates |-> FALSE]
    /\ products = [currentPage |-> 1, totalPages |-> 1, loading |-> TRUE, serverPages |-> 1]
    /\ deleteAll = ModalClosed
    /\ trace = TraceOff
    /\ history = [errorsOf |-> IF uploadErrors = NoErrors THEN NULL ELSE currentUploadTaskId,
                  freshSuccess |-> FALSE, lastPing |-> <<NULL, NULL>>,
                  lastArgs |-> NoOutcome]

RenderApply ==
    /\ ~render.done
    /\ render' = [render EXCEPT !.done = TRUE]
    /\ uploadErrors' = displayErrors(uploadErrors, currentUploadTaskId, render.input)
    /\ history' = [history EXCEPT !.errorsOf =
                       shownAfter(@, currentUploadTaskId, render.input, currentUploadTaskId)]
    /\ UNCHANGED << currentUploadTaskId, uploadWebSocket, sockets, pollers, progressDisplay,
                    uploadResult, pendingUploads, uploadsStarted, nextTaskId,
                    serverStatus, completeCount, lastProgress, abandoned,
                    pingTimers, appState, tabs, products, trace, deleteAll >>

RenderSpec == RenderInit /\ [][RenderApply]_vars

\* The tracking of one job, with a timer that keeps firing while its loop
\* runs and a status endpoint that eventually answers a poll.
FirstUpload == uploadsStarted = 0 /\ UploadStart

LiveNext == FirstUpload \/ Handlers

LiveSpec ==
    /\ Init /\ [][LiveNext]_vars
    /\ \A k \in PollerIds : WF_vars(PollTick(k)) /\ SF_vars(PollRespOk(k))

\* ------------------------------------------------------------- two jobs
\* A second file is chosen while the first job may still be tracked.
SecondUpload == uploadsStarted = 1 /\ Submit

PairNext == LiveNext \/ SecondUpload

PairSpec == Init /\ [][PairNext]_vars

\* ------------------------------------------------------------ keepalive
\* The interval callback of lines 346-352, of the connectWebSocket call for
\* task t: it reads the global uploadWebSocket.
PingTick(t) ==
    /\ pingTimers[t]
    /\ IF uploadWebSocket # NULL /\ sockets[uploadWebSocket].state = "OPEN"
         THEN /\ history' = [history EXCEPT !.lastPing = <<t, uploadWebSocket>>]
              /\ UNCHANGED pingTimers
         ELSE /\ pingTimers' = [pingTimers EXCEPT ![t] = FALSE]
              /\ UNCHANGED history
    /\ UNCHANGED << currentUploadTaskId, uploadWebSocket, sockets, pollers, progressDisplay,
                    uploadErrors, uploadResult, pendingUploads, uploadsStarted, nextTaskId,
                    serverStatus, completeCount, lastProgress,
                    abandoned, render, appState, tabs, products, trace, deleteAll >>

KeepaliveSpec == Init /\ [][PairNext \/ \E t \in TaskIds : PingTick(t)]_vars

\* ------------------------------------------------------------------ tabs
\* The click handler of a tab button (app.js lines 15-36).
TabClick(tab) ==
    /\ tabs' = [active |-> tab,
                hasUpdates |-> IF tab = "products" THEN FALSE ELSE tabs.hasUpdates]
    /\ appState' = IF tab = "products" THEN [appState EXCEPT !.recentUpload = FALSE]
                                       ELSE appState
    /\ history' = [history EXCEPT !.freshSuccess = IF tab = "products" THEN FALSE ELSE @]
    /\ products' = IF tab = "products" THEN loadProducts(products) ELSE products
    /\ UNCHANGED << currentUploadTaskId, uploadWebSocket, sockets, pollers, progressDisplay,
                    uploadErrors, uploadResult, pendingUploads, uploadsStarted, nextTaskId,
                    serverStatus, completeCount, lastProgress,
                    abandoned, render, pingTimers, trace, deleteAll >>

TabSpec == Init /\ [][LiveNext \/ \E tab \in Tabs : TabClick(tab)]_vars

\* ----------------------------------------------------------------- trace
\* One job, with the ignored frames, the failed polls, the errors payloads
\* and the rejections recorded.
TraceInit ==
    /\ currentUploadTaskId = NULL
    /\ uploadWebSocket = NULL
    /\ sockets = [t \in TaskIds |-> NoSocket]
    /\ pollers = <<>>
    /\ progressDisplay = [width |-> 0, text |-> 0, details |-> <<0, 0>>]
    /\ uploadErrors = NoErrors
    /\ uploadResult = NoResult
    /\ pendingUploads = 0
    /\ uploadsStarted = 0
    /\ nextTaskId = 1
    /\ serverStatus = [t \in TaskIds |-> "none"]
    /\ completeCount = [t \in TaskIds |-> 0]
    /\ lastProgress = ZeroEvent
    /\ abandoned = {}
    /\ render = [input |-> <<>>, done |-> FALSE]
    /\ pingTimers = [t \in TaskIds |-> FALSE]
    /\ appState = [recentUpload |-> FALSE, lastUploadTime |-> NULL]
    /\ tabs = [active |-> "upload", hasUpdates |-> FALSE]
    /\ products = [currentPage |-> 1, totalPages |-> 1, loading |-> TRUE, serverPages |-> 1]
    /\ deleteAll = ModalClosed
    /\ trace = [TraceOff EXCEPT !.on = {"frames", "polls", "submit"}]
    /\ history = [errorsOf |-> NULL, freshSuccess |-> FALSE, lastPing |-> <<NULL, NULL>>,
                  lastArgs |-> NoOutcome]

TraceSpec == TraceInit /\ [][LiveNext]_vars

\* --------------------------------------------------------- products page
MaxPages == 3
MaxDeleting == 2

\* What the handlers of the products page leave alone.
upload == << currentUploadTaskId, uploadWebSocket, sockets, pollers, progressDisplay,
             uploadErrors, uploadResult, pendingUploads, uploadsStarted, nextTaskId,
             serverStatus, completeCount, lastProgress, abandoned, render,
             pingTimers, appState, tabs, trace, history >>

\* GET /products answers 2xx (lines 121-128): totalPages is taken from the
\* response; more requests may still be in flight.
LoadRespOk ==
    /\ products.loading
    /\ \E more \in BOOLEAN :
        products' = [products EXCEPT !.totalPages = products.serverPages, !.loading = more]
    /\ UNCHANGED << upload, deleteAll >>

\* GET /products fails (line 122, 130): a toast, nothing else.
LoadRespFail ==
    /\ products.loading
    /\ \E more \in BOOLEAN : products' = [products EXCEPT !.loading = more]
    /\ UNCHANGED << upload, deleteAll >>

\* changePage(delta), lines 166-172.
changePage(p, delta) ==
    LET newPage == p.currentPage + delta
    IN IF newPage >= 1 /\ newPage <= p.totalPages
          THEN loadProducts([p EXCEPT !.currentPage = newPage])
          ELSE p

\* A click on prev-page or next-page (lines 99-100).
ChangePage(delta) ==
    /\ products' = changePage(products, delta)
    /\ UNCHANGED << upload, deleteAll >>

\* The change handler of page-size (lines 101-105): the list is requested
\* from page 1; the server counts the pages for the new size.
PageSizeChange ==
    /\ \E n \in 1..MaxPages :
        products' = loadProducts([products EXCEPT !.currentPage = 1, !.serverPages = n])
    /\ UNCHANGED << upload, deleteAll >>

\* applyFilters (lines 174-189): the list is requested from page 1; the
\* server counts the pages of the products that match.
ApplyFilters ==
    /\ \E n \in 1..MaxPages :
        products' = loadProducts([products EXCEPT !.currentPage = 1, !.serverPages = n])
    /\ UNCHANGED << upload, deleteAll >>

\* clearFilters (lines 191-199): as applyFilters, with every product matching.
ClearFilters ==
    /\ \E n \in products.serverPages..MaxPages :
        products' = loadProducts([products EXCEPT !.currentPage = 1, !.serverPages = n])
    /\ UNCHANGED << upload, deleteAll >>

\* handleProductSubmit answered 2xx (lines 226-259): a product was created
\* or changed, the list is requested again for the current page.
ProductSubmit ==
    /\ \E n \in {products.serverPages, products.serverPages + 1} :
        /\ n <= MaxPages
        /\ products' = loadProducts([products EXCEPT !.serverPages = n])
    /\ UNCHANGED << upload, deleteAll >>

\* deleteProduct answered 2xx (lines 274-290): one product is gone, the list
\* is requested again for the current page.
DeleteProduct ==
    /\ \E n \in {products.serverPages - 1, products.serverPages} :
        /\ n >= 1
        /\ products' = loadProducts([products EXCEPT !.serverPages = n])
    /\ UNCHANGED << upload, deleteAll >>

\* handleBulkDelete answered 2xx (lines 311-350): the selected products are
\* gone, the list is requested again for the current page.
BulkDelete ==
    /\ \E n \in 1..products.serverPages :
        products' = loadProducts([products EXCEPT !.serverPages = n])
    /\ UNCHANGED << upload, deleteAll >>

\* ------------------------------------------------------------ delete all
\* What the user types into delete-all-confirm-input.
Inputs ==
    { <<>>, <<" ">>, DELETE, <<" ">> \o DELETE, DELETE \o <<" ">>, <<" ">> \o DELETE \o <<" ">>,
      <<"d", "e", "l", "e", "t", "e">>, <<"D", "E", "L", "E", "T">>, DELETE \o <<" ", "X">>,
      <<"D", "E", " ", "L", "E", "T", "E">> }

RECURSIVE TrimStart(_)
TrimStart(v) == IF v # <<>> /\ Head(v) = " " THEN TrimStart(Tail(v)) ELSE v

RECURSIVE TrimEnd(_)
TrimEnd(v) == IF v # <<>> /\ v[Len(v)] = " " THEN TrimEnd(SubSeq(v, 1, Len(v) - 1)) ELSE v

\* String.prototype.trim.
Trim(v) == TrimEnd(TrimStart(v))

\* openDeleteAllModal, lines 352-358.
OpenDeleteAllModal ==
    /\ deleteAll' = [deleteAll EXCEPT !.input = <<>>, !.disabled = TRUE, !.show = TRUE]
    /\ UNCHANGED << upload, products >>

\* closeDeleteAllModal, lines 360-363.
CloseDeleteAllModal ==
    /\ deleteAll.show
    /\ deleteAll' = [deleteAll EXCEPT !.show = FALSE]
    /\ UNCHANGED << upload, products >>

\* onDeleteAllInput, lines 365-369: the input event of the confirmation field.
DeleteAllInput(v) ==
    /\ deleteAll.show
    /\ deleteAll' = [deleteAll EXCEPT !.input = v, !.disabled = (Trim(v) # DELETE)]
    /\ UNCHANGED << upload, products >>

finalCheck_none(v) == TRUE

\* The final safety check of performDeleteAll (line 373) lets the call go on.
finalCheck(v) == Trim(v) = DELETE

\* performDeleteAll up to its await (lines 371-380): the click handler of
\* the confirm button, which the user can click while it is shown and enabled.
PerformDeleteAll ==
    /\ deleteAll.show /\ ~deleteAll.disabled
    /\ deleteAll.deleting < MaxDeleting
    /\ deleteAll' =
        IF finalCheck(deleteAll.input)
           THEN [deleteAll EXCEPT !.ran = ~@, !.disabled = TRUE, !.text = "Deleting...",
                                  !.deleting = @ + 1]
           ELSE [deleteAll EXCEPT !.ran = ~@]
    /\ UNCHANGED << upload, products >>

\* DELETE /products/delete-all answered 2xx (lines 387-399): page 1 is
\* requested, the modal closed, the button restored.
DeleteAllRespOk ==
    /\ deleteAll.deleting > 0
    /\ products' = loadProducts([products EXCEPT !.currentPage = 1, !.serverPages = 1])
    /\ deleteAll' = [deleteAll EXCEPT !.deleting = @ - 1, !.show = FALSE,
                                      !.disabled = FALSE, !.text = "Delete All"]
    /\ UNCHANGED upload

\* The request failed (lines 382-385, 394-399): a toast, the button restored.
DeleteAllRespFail ==
    /\ deleteAll.deleting > 0
    /\ deleteAll' = [deleteAll EXCEPT !.deleting = @ - 1, !.disabled = FALSE,
                                      !.text = "Delete All"]
    /\ UNCHANGED << upload, products >>

\* The products page on its own.
ProductsNext ==
    \/ LoadRespOk
    \/ LoadRespFail
    \/ \E delta \in {-1, 1} : ChangePage(delta)
    \/ PageSizeChange
    \/ ApplyFilters
    \/ ClearFilters
    \/ ProductSubmit
    \/ DeleteProduct
    \/ BulkDelete
    \/ OpenDeleteAllModal
    \/ CloseDeleteAllModal
    \/ \E v \in Inputs : DeleteAllInput(v)
    \/ PerformDeleteAll
    \/ DeleteAllRespOk
    \/ DeleteAllRespFail

ProductsSpec == Init /\ [][ProductsNext]_vars

\* ------------------------------------------------------------- properties
PollersOf(t) == { k \in DOMAIN pollers : pollers[k].task = t }
ActivePollersOf(t) == { k \in PollersOf(t) : pollers[k].active }

\* The socket of task t delivered an error event or a close event with a
\* code other than 1000.
StreamingUnhealthy(t) ==
    sockets[t].errorSeen \/ sockets[t].closeCode \notin {0, NormalClosure}

\* C1: for every task the completion handler is invoked at most once,
\* whatever the interleaving of streaming events and polling ticks.
C1_CompleteAtMostOnce == \A t \in TaskIds : completeCount[t] <= 1

\* C2: once the streaming channel of a task has reported an error or an
\* abnormal close, a polling loop exists for the task, and if the status
\* endpoint reports completed or failed the completion handler is
\* eventually invoked for the task.
C2_FallbackCompletes ==
    \A t \in TaskIds :
        /\ [](StreamingUnhealthy(t) => PollersOf(t) # {})
        /\ (StreamingUnhealthy(t) /\ serverStatus[t] \in Terminal) ~> (completeCount[t] > 0)

C2_Witness ==
    \E t \in TaskIds :
        /\ sockets[t].closeCode = AbnormalClosure
        /\ ~sockets[t].completeSent
        /\ PollersOf(t) # {} /\ ActivePollersOf(t) = {}
        /\ completeCount[t] = 1

\* C3: a streaming channel that closed with code 1000 without an error
\* event has started no polling loop for its task; this covers the close
\* the completion handler performs after a complete frame.
C3_NormalCloseNoPolling ==
    \A t \in TaskIds :
        (sockets[t].closeCode = NormalClosure /\ ~sockets[t].errorSeen) => PollersOf(t) = {}

C3_Witness ==
    \E t \in TaskIds :
        /\ sockets[t].completeSent
        /\ sockets[t].closing = NormalClosure
        /\ sockets[t].closeCode = NormalClosure
        /\ completeCount[t] = 1
        /\ PollersOf(t) = {}

\* C4: the displayed progress, processed and total are exactly the values
\* of the event applied last, from whichever channel: the bar width is its
\* progress, the text its progress to one decimal, the details its
\* processed and total.
C4_LastWriteWins ==
    progressDisplay = [ width   |-> lastProgress.progress,
                        text    |-> (lastProgress.progress + 5) \div 10,
                        details |-> <<lastProgress.processed, lastProgress.total>> ]

\* A poll applied a lower progress than the one a frame had displayed.
C4_Witness ==
    /\ lastProgress.progress = 3333
    /\ progressDisplay.text = 333
    /\ \E k \in DOMAIN pollers : ~pollers[k].active
    /\ \E t \in TaskIds : completeCount[t] > 0

\* C5: rendering a list of N >= 1 records while a job is tracked shows the
\* first min(N, 10) records in arrival order, and a summary line counting
\* exactly N - 10 further errors when N > 10, none when N <= 10.
C5_RenderCap ==
    (render.done /\ currentUploadTaskId # NULL /\ Len(render.input) > 0) =>
        LET N == Len(render.input)
            shown == IF N < 10 THEN N ELSE 10
        IN  /\ Len(uploadErrors.items) = shown
            /\ \A i \in 1..shown : uploadErrors.items[i] = ErrorItem(render.input[i])
            /\ uploadErrors.more = (IF N > 10 THEN N - 10 ELSE 0)

C5_Witness ==
    /\ render.done
    /\ currentUploadTaskId # NULL
    /\ Len(render.input) = MaxErrs
    /\ Len(uploadErrors.items) = DisplayCap
    /\ uploadErrors.more = MaxErrs - DisplayCap

\* C6: when the stream of a task closed abnormally and polling has
\* observed completed, the completion handler has fired exactly once for
\* the task in the whole run.
C6_FallbackCompletesOnce ==
    \A t \in TaskIds :
        ( /\ sockets[t].closeCode = AbnormalClosure
          /\ serverStatus[t] = "completed"
          /\ \E k \in PollersOf(t) : ~pollers[k].active ) => completeCount[t] = 1

\* C7: once the caller has abandoned a task, every channel of the task is
\* closed and no completion or progress callback runs for it any more.
C7_AbandonSilences ==
    [][ \A t \in abandoned :
            /\ sockets[t].state \notin {"CONNECTING", "OPEN"}
            /\ ActivePollersOf(t) = {}
            /\ completeCount'[t] = completeCount[t]
            /\ (nextTaskId = 2 /\ uploadsStarted = 1) => progressDisplay' = progressDisplay ]_vars

\* C8: a polling loop exists for a task only if the socket of that task
\* delivered an error event or a close event with a code other than 1000;
\* submission and received frames start none.
C8_PollingOnlyAfterFailure ==
    \A k \in DOMAIN pollers : StreamingUnhealthy(pollers[k].task)

\* Frames were received on a healthy stream and nothing polls.
C8_Witness ==
    \E t \in TaskIds :
        /\ sockets[t].state = "OPEN"
        /\ lastProgress # ZeroEvent
        /\ uploadErrors # NoErrors
        /\ pollers = <<>>

\* C9: at most one polling loop runs for a task at any time.
C9_OnePollingLoop == \A t \in TaskIds : Cardinality(ActivePollersOf(t)) <= 1

\* C10: once the completion handler has run for a task, the socket of the
\* task is closing or closed, no polling loop of the task is scheduled, and
\* a status response handled for the task changes no display.
C10_ReleasedAfterComplete ==
    [][ \A t \in TaskIds : completeCount[t] > 0 =>
            /\ sockets[t].state \in {"CLOSING", "CLOSED"}
            /\ ActivePollersOf(t) = {}
            /\ (\E k \in PollersOf(t) : pollers'[k].inflight < pollers[k].inflight)
                    => UNCHANGED << progressDisplay, uploadErrors, uploadResult >> ]_vars

\* A call of the completion handler for task t made by the stream's complete
\* frame, or by a status response handled while the endpoint reports a
\* terminal status.
CompletedByEvidence(t) ==
    \/ sockets[t].state = "OPEN" /\ ~sockets[t].completeSent /\ sockets'[t].completeSent
    \/ /\ serverStatus[t] \in Terminal
       /\ \E k \in PollersOf(t) : PollRespOk(k)

\* C11: the completion handler runs only for a complete frame or for a 2xx
\* status response reporting completed or failed, and the result display
\* turns to a failure only then or when the submission itself is rejected:
\* a stream error, an abnormal close, a failed poll or an ignored frame
\* neither completes nor fails the task.
C11_CompleteOnlyOnEvidence ==
    [][ /\ \A t \in TaskIds :
              completeCount'[t] # completeCount[t] => CompletedByEvidence(t)
        /\ (uploadResult' # uploadResult /\ uploadResult'.cls = "error") =>
              \/ \E t \in TaskIds : completeCount'[t] # completeCount[t]
              \/ pendingUploads' < pendingUploads ]_vars

\* The stream failed, a frame was ignored and polls failed, and the task is
\* neither completed nor failed.
C11_Witness ==
    \E t \in TaskIds :
        /\ sockets[t].errorSeen /\ sockets[t].closeCode = AbnormalClosure
        /\ t \in trace.badFrame
        /\ trace.pollFails = MaxNoted
        /\ completeCount[t] = 0
        /\ uploadResult = NoResult
        /\ currentUploadTaskId = t

\* C12: a status response handled by a polling loop while the endpoint
\* reports completed or failed cancels the loop's timer and calls the
\* completion handler once; one handled while it reports anything else
\* leaves the timer scheduled and calls no completion; a loop whose timer
\* is cancelled sends no further request.
C12_TerminalStopsLoop ==
    [][ \A k \in DOMAIN pollers :
          LET t == pollers[k].task IN
          /\ (PollRespOk(k) /\ serverStatus[t] \in Terminal) =>
                /\ ~pollers'[k].active
                /\ completeCount'[t] = completeCount[t] + 1
          /\ (PollRespOk(k) /\ serverStatus[t] \notin Terminal) =>
                /\ pollers'[k].active = pollers[k].active
                /\ completeCount' = completeCount
          /\ ~pollers[k].active => pollers'[k].inflight <= pollers[k].inflight ]_vars

\* A loop polled while the job was processing, then observed failed and
\* stopped.
C12_Witness ==
    \E k \in DOMAIN pollers :
        /\ ~pollers[k].active
        /\ pollers[k].inflight = 0
        /\ serverStatus[pollers[k].task] = "failed"
        /\ completeCount[pollers[k].task] = 1
        /\ uploadResult.cls = "error"
        /\ lastProgress.progress = 3333

\* C13: a status response that reports a terminal status closes no socket
\* but the one of the polled task, and closes it with code 1000, so that
\* its close event starts no polling loop.
C13_PollClosesOwnSocketNormally ==
    [][ \A k \in DOMAIN pollers :
          (PollRespOk(k) /\ serverStatus[pollers[k].task] \in Terminal) =>
              \A s \in TaskIds :
                  sockets'[s] # sockets[s] =>
                      /\ s = pollers[k].task
                      /\ sockets'[s].closing = NormalClosure ]_vars

\* C14: a status request that fails, or is answered with a non-2xx
\* response, changes no display, completes nothing, closes nothing and
\* leaves the loop's timer as it was; the timer of a running loop can always
\* fire again once the request is answered, however many requests failed.
C14_FailedPollRetried ==
    /\ [][ \A k \in DOMAIN pollers :
              PollRespFail(k) =>
                  /\ UNCHANGED << progressDisplay, uploadErrors, uploadResult, completeCount,
                                  currentUploadTaskId, uploadWebSocket, sockets, appState >>
                  /\ pollers'[k].active = pollers[k].active
                  /\ Len(pollers') = Len(pollers) ]_vars
    /\ [](\A k \in DOMAIN pollers :
              (pollers[k].active /\ pollers[k].inflight = 0) => ENABLED PollTick(k))

\* MaxNoted polls failed and the loop has sent the next request.
C14_Witness ==
    \E k \in DOMAIN pollers :
        /\ trace.pollFails = MaxNoted
        /\ pollers[k].active
        /\ pollers[k].inflight > 0
        /\ completeCount[pollers[k].task] = 0
        /\ uploadResult = NoResult
        /\ PollersOf(pollers[k].task) = {k}

\* C15: a frame that does not decode, or whose type is none of connected,
\* progress, complete and pong, changes neither the displays nor the task:
\* nothing is completed, no socket is closed, no polling loop is started;
\* the connection stays open, so that later frames are handled.
C15_BadFrameIgnored ==
    [][ \A s \in TaskIds :
          WsBadFrame(s) =>
              /\ UNCHANGED << progressDisplay, uploadErrors, uploadResult, completeCount,
                              currentUploadTaskId, uploadWebSocket, sockets, pollers,
                              lastProgress, appState >>
              /\ sockets'[s].state = "OPEN" ]_vars

\* A frame was ignored, and the complete frame of the same connection was
\* handled after it.
C15_Witness ==
    \E s \in TaskIds :
        /\ s \in trace.badFrame
        /\ sockets[s].completeSent
        /\ completeCount[s] = 1
        /\ lastProgress.progress = 10000
        /\ uploadResult.cls = "success"
        /\ pollers = <<>>

\* C16: a status response of a job still processing whose errors member is
\* a string that is no JSON shows that string as one batch-level error; one
\* whose errors member decodes shows the decoded list; in both cases the
\* loop goes on.
C16_RawErrorsShown ==
    [][ \A k \in DOMAIN pollers :
          ( /\ PollRespOk(k)
            /\ serverStatus[pollers[k].task] \notin Terminal
            /\ currentUploadTaskId # NULL ) =>
              /\ trace'.pollErrors.k = "text" =>
                    uploadErrors' = RenderErrors(<< [BatchErr EXCEPT
                                        !.batch_error = trace'.pollErrors.str] >>)
              /\ trace'.pollErrors.k = "json" =>
                    uploadErrors' = RenderErrors(trace'.pollErrors.errs)
              /\ pollers'[k].active = pollers[k].active ]_vars

\* C17: when the keepalive timer of the connection of task t fires, it
\* sends a ping only on that connection and only while it is open, and if
\* that connection is closing or closed the timer is cancelled: the timer
\* of a closed connection neither stays scheduled nor pings the connection
\* of another task.
C17_KeepaliveOwnConnection ==
    [][ \A t \in TaskIds :
          PingTick(t) =>
              /\ history'.lastPing # history.lastPing =>
                    /\ history'.lastPing = <<t, t>>
                    /\ sockets[t].state = "OPEN"
              /\ sockets[t].state \in {"CLOSING", "CLOSED"} => ~pingTimers'[t] ]_vars

\* C18: every completion with success = true sets appState.recentUpload
\* (and lastUploadTime), no completion with success = false sets it, and
\* selecting the products tab clears it: recentUpload is true exactly when
\* a successful completion happened since the products tab was last
\* selected.
C18_RecentUploadSignal ==
    /\ [](appState.recentUpload = history.freshSuccess)
    /\ [](appState.recentUpload => appState.lastUploadTime # NULL)
    /\ [][ /\ (\E t \in TaskIds : completeCount'[t] # completeCount[t]) =>
                 IF uploadResult'.cls = "success"
                     THEN appState'.recentUpload
                     ELSE appState' = appState
           /\ tabs'.active = "products" /\ tabs' # tabs => ~appState'.recentUpload ]_vars

\* A job completed with success, which set the flag, and the products tab
\* was selected afterwards, which cleared it.
C18_Witness ==
    /\ ~appState.recentUpload
    /\ appState.lastUploadTime # NULL
    /\ tabs.active = "products"
    /\ uploadResult.cls = "success"
    /\ \E t \in TaskIds : completeCount[t] = 1

\* The submission is rejected in this step.
Rejected == pendingUploads' < pendingUploads /\ nextTaskId' = nextTaskId

\* C19 as stated: a rejected submission (non-2xx response or network
\* failure) opens no connection, starts no polling loop and no keepalive
\* timer, leaves the current task identifier unchanged, and is reported
\* with the detail text of the response, or 'Upload failed' when there is
\* none.
C19_RejectedReportsDetail ==
    [][ Rejected =>
          /\ UNCHANGED << sockets, pollers, pingTimers, currentUploadTaskId, uploadWebSocket >>
          /\ uploadResult'.cls = "error"
          /\ uploadResult'.msg = IF trace'.rejection.detail.k = "none"
                                     THEN Txt("Upload failed")
                                     ELSE trace'.rejection.detail ]_vars

\* C19 as amended: a rejected submission starts no tracking and leaves the
\* current task identifier unchanged; a non-2xx response with a JSON body
\* is reported with its detail text, or 'Upload failed' when it has none;
\* a network failure or a body that is no JSON is reported with the message
\* of the exception thrown.
C19_RejectedReported ==
    [][ Rejected =>
          /\ UNCHANGED << sockets, pollers, pingTimers, currentUploadTaskId, uploadWebSocket >>
          /\ uploadResult'.cls = "error"
          /\ trace'.rejection.kind = "status" =>
                uploadResult'.msg = IF trace'.rejection.detail.k = "none"
                                        THEN Txt("Upload failed")
                                        ELSE trace'.rejection.detail
          /\ trace'.rejection.kind = "network" => uploadResult'.msg = Txt("Failed to fetch")
          /\ trace'.rejection.kind = "body" =>
                uploadResult'.msg = Txt("Unexpected token in JSON") ]_vars

\* A response with a detail text was reported and nothing is tracked.
C19_Witness ==
    /\ trace.rejection.kind = "status"
    /\ trace.rejection.detail = Txt("Only CSV files are allowed")
    /\ uploadResult = [NoResult EXCEPT !.cls = "error",
                                       !.msg = Txt("Only CSV files are allowed")]
    /\ currentUploadTaskId = NULL
    /\ uploadWebSocket = NULL
    /\ pollers = <<>>
    /\ \A t \in TaskIds : sockets[t] = NoSocket /\ ~pingTimers[t]

\* C20: the completion handler empties the error display, no record is
\* displayed while no task is tracked (from a completion until the next
\* job), and the records displayed were reported for the task that is
\* being tracked, never for another one.
C20_ErrorsTaskScoped ==
    /\ [][ (\E t \in TaskIds : completeCount'[t] # completeCount[t]) =>
               uploadErrors' = NoErrors ]_vars
    /\ [](currentUploadTaskId = NULL => uploadErrors = NoErrors)
    /\ [](history.errorsOf # NULL => history.errorsOf = currentUploadTaskId)

\* C21: while a task is tracked, a call of displayErrors with fewer records
\* than the display stands for leaves every record already shown in its
\* place.
C21_ErrorsAdditive ==
    [][ ( /\ RenderApply
          /\ currentUploadTaskId # NULL
          /\ Len(render.input) < Len(uploadErrors.items) + uploadErrors.more ) =>
            \A i \in 1..Len(uploadErrors.items) :
                /\ i <= Len(uploadErrors'.items)
                /\ uploadErrors'.items[i] = uploadErrors.items[i] ]_vars

\* C22: while the tracked task is processing, the progress and the
\* processed count displayed never decrease.
C22_ProgressMonotonic ==
    [][ ( /\ currentUploadTaskId # NULL
          /\ currentUploadTaskId' = currentUploadTaskId
          /\ serverStatus[currentUploadTaskId] = "processing"
          /\ serverStatus' = serverStatus ) =>
            /\ progressDisplay'.width >= progressDisplay.width
            /\ progressDisplay'.details[1] >= progressDisplay.details[1] ]_vars

\* C23: a complete frame with success=false and a JSON list of error records
\* is displayed with one line per record ('Row r: m' for a row-level record),
\* and the completion handler runs exactly once for that job.
C23_FailureFrameListed ==
    /\ [][ \A s \in TaskIds :
              ( /\ sockets'[s].completeSent /\ ~sockets[s].completeSent
                /\ ~trace'.complete.success /\ trace'.complete.message.k = "json" ) =>
                  /\ uploadResult'.count = Len(trace'.complete.message.errs)
                  /\ Len(uploadResult'.details) = uploadResult'.count
                  /\ uploadResult'.more = 0
                  /\ \A i \in 1..Len(uploadResult'.details) :
                         uploadResult'.details[i] =
                             <<"Row", trace'.complete.message.errs[i].row,
                               trace'.complete.message.errs[i].error>> ]_vars
    /\ [](\A s \in TaskIds : sockets[s].completeSent => completeCount[s] = 1)

\* C24: the arguments of the completion handler are the complete frame's own
\* success flag and message; from a poll, success is true exactly when the
\* status is completed and the failure message is the errors payload of the
\* response, or 'Upload failed' when there is none; a failed outcome on
\* display is not replaced by a success unless a new file is submitted.
C24_OutcomeVerbatim ==
    /\ [][ \A t \in TaskIds : completeCount'[t] # completeCount[t] =>
              IF sockets'[t].completeSent /\ ~sockets[t].completeSent
              THEN history'.lastArgs = trace'.complete
              ELSE /\ history'.lastArgs.success = (serverStatus[t] = "completed")
                   /\ serverStatus[t] = "failed" =>
                        history'.lastArgs.message =
                            IF trace'.pollErrors.k = "none" THEN Txt("Upload failed")
                                                            ELSE trace'.pollErrors ]_vars
    /\ [][ (uploadResult.cls = "error" /\ uploadsStarted' = uploadsStarted) =>
              uploadResult'.cls = "error" ]_vars

\* A failed status response without errors payload was handled: the handler
\* was given 'Upload failed'.
C24_Witness ==
    /\ \E t \in TaskIds : serverStatus[t] = "failed" /\ completeCount[t] = 1
                          /\ ~sockets[t].completeSent
    /\ trace.pollErrors.k = "none"
    /\ history.lastArgs = [success |-> FALSE, message |-> Txt("Upload failed")]
    /\ uploadResult.cls = "error"

\* C25: each line displayErrors writes is fixed by the variant of its record,
\* in this order: batch-level message 'System: m'; error message 'Row r: m'
\* with a row index (row 0 included), 'Processing: m' without; bare string
\* 'Error: s'; anything else 'Unknown error occurred'.
C25_TextByVariant ==
    [][ (RenderApply /\ currentUploadTaskId # NULL /\ Len(render.input) > 0) =>
          \A i \in 1..Len(uploadErrors'.items) :
              LET e == render.input[i]
              IN uploadErrors'.items[i] =
                     CASE e \in {BatchErr, BothErr} -> <<"System", 0, "db down">>
                       [] e = RowErr(e.row) -> <<"Row", e.row, "bad sku">>
                       [] e = ProcErr -> <<"Processing", 0, "timeout">>
                       [] e = StrErr -> <<"Error", 0, "disk full">>
                       [] e = EmptyObj -> <<"Unknown", 0, "">> ]_vars

\* A row-level record of row 0 was displayed after a record that has both a
\* batch-level message and an error message.
C25_Witness ==
    /\ render.done /\ render.input = <<BothErr, RowErr(0)>>
    /\ uploadErrors.items = << <<"System", 0, "db down">>, <<"Row", 0, "bad sku">> >>

\* C27: the current task identifier is non-null whenever a submitted job has
\* not been finalized, also when a second job was submitted before the first
\* one completed.
C27_TrackedWhileUnfinished ==
    (\E t \in TaskIds : serverStatus[t] # "none" /\ completeCount[t] = 0)
        => currentUploadTaskId # NULL

\* C28: the products tab carries 'has-updates' only while recentUpload is
\* true and the products tab is not the active tab; the indicator appears
\* only with a successful completion and goes only when the products tab
\* is selected.
C28_HasUpdatesGuarded ==
    /\ [](tabs.hasUpdates => (appState.recentUpload /\ tabs.active # "products"))
    /\ [][ (~tabs.hasUpdates /\ tabs'.hasUpdates) =>
              /\ uploadResult'.cls = "success"
              /\ \E t \in TaskIds : completeCount'[t] = completeCount[t] + 1 ]_vars
    /\ [][ (tabs.hasUpdates /\ ~tabs'.hasUpdates) =>
              (tabs'.active = "products" /\ ~appState'.recentUpload) ]_vars

\* A job completed successfully while the webhooks tab was active: the
\* indicator is on the products tab.
C28_Witness ==
    /\ tabs.hasUpdates /\ appState.recentUpload /\ tabs.active = "webhooks"
    /\ uploadResult.cls = "success"

\* C26: performDeleteAll sends a delete-all request only if the confirmation
\* input, trimmed of surrounding whitespace, is exactly 'DELETE'; otherwise
\* it leaves the button, the modal and everything else as they were.
C26_DeleteAllConfirmed ==
    /\ [][ deleteAll'.deleting > deleteAll.deleting =>
              /\ deleteAll'.ran # deleteAll.ran
              /\ deleteAll.input \in { DELETE, <<" ">> \o DELETE, DELETE \o <<" ">>,
                                       <<" ">> \o DELETE \o <<" ">> } ]_vars
    /\ [][ ( /\ deleteAll'.ran # deleteAll.ran
             /\ deleteAll.input \notin { DELETE, <<" ">> \o DELETE, DELETE \o <<" ">>,
                                         <<" ">> \o DELETE \o <<" ">> } ) =>
              /\ [deleteAll' EXCEPT !.ran = deleteAll.ran] = deleteAll
              /\ products' = products ]_vars

\* performDeleteAll ran with something else than 'DELETE' in the input and
\* an enabled button, after an earlier request was sent and answered.
C26_Witness ==
    /\ deleteAll.ran /\ deleteAll.deleting = 0 /\ deleteAll.show /\ ~deleteAll.disabled
    /\ deleteAll.input = <<"d", "e", "l", "e", "t", "e">>
    /\ deleteAll.text = "Delete All"

\* C29: the current page stays within 1..totalPages as last reported by the
\* server, and a page change happens only to a page inside that range.
C29_PageWithinRange ==
    /\ [](products.currentPage >= 1 /\ products.currentPage <= products.totalPages)
    /\ [][ products'.currentPage # products.currentPage =>
              (products'.currentPage >= 1 /\ products'.currentPage <= products.totalPages) ]_vars

====
